---- MODULE Spec2Model ----
(***************************************************************************)
(* Model of the kamune desktop daemon bridge                               *)
(* (bus/src-tauri/src/daemon_bridge.rs and the lifecycle commands of       *)
(* bus/src-tauri/src/main.rs).                                             *)
(*                                                                         *)
(* Parties: the callers of send_command_async, the lifecycle commands      *)
(* start_daemon / stop_daemon / daemon_status, one stdout reader thread    *)
(* and one shutdown monitor thread per spawned child, the event forwarder  *)
(* tasks, and the (opaque) daemon processes.                               *)
(*                                                                         *)
(* Steps are taken at lock granularity: a step is a piece of code between  *)
(* two points where the executing party can be preempted while another     *)
(* party observes shared state (the bridge mutex, the pending-table lock,  *)
(* the reply channels, the pipes).                                         *)
(***************************************************************************)
EXTENDS Integers, Sequences, FiniteSets, TLC

\* ---- bounds ----
NumCalls == 2       \* send_command_async invocations
MaxProcs == 2       \* children launched over the bridge's lifetime
MaxLines == 2       \* lines written by the children to their stdout

Calls == 1..NumCalls
Procs == 1..MaxProcs

\* uuid::Uuid::new_v4() strings.  Ids 1..NumCalls are the ones handed to
\* commands, all distinct; which call gets which is immaterial, so one
\* assignment (not the identity) is fixed.  UnknownId is a string no command
\* of a caller carries.
CmdIds == 1..NumCalls
UnknownId == NumCalls + 1
NewId(c) == NumCalls + 1 - c

\* ---- values ----
Free == <<"free">>
ByCall_Unlocked(c) == <<"free">>
ByCall(c) == <<"call", c>>
ByStop_Unlocked == <<"free">>
ByStop == <<"stop">>
ByReader(p) == <<"reader", p>>

NoCall == 0          \* no sender / vacant HashMap slot
NoProc == 0          \* Option::None for child, stdin, event_tx, holder
DeadRx == -1         \* a receiver whose channel has no sender left

NoMsg == [tag |-> "none"]
OkEvent(e) == [tag |-> "Ok", id |-> e.id, serial |-> e.serial, stream |-> e.stream]
ErrNotRunning == [tag |-> "NotRunning"]
ErrSendError == [tag |-> "SendError"]
ErrTimeout == [tag |-> "Timeout"]

NoEvt == [serial |-> 0, stream |-> 0, id |-> <<"None">>]

VARIABLES
    child,          \* DaemonBridge.child: NoProc or the owned process
    stdin,          \* DaemonBridge.stdin: NoProc or the process whose pipe it is
    shutdown_tx,    \* DaemonBridge.shutdown_tx: NoProc or the spawn it belongs to
    event_tx,       \* DaemonBridge.event_tx: NoProc or the channel (named by its spawn)
    pending,        \* pending_responses: id -> call whose oneshot sender is stored
    bridgeLock,     \* tokio Mutex around the DaemonBridge
    pendingLock,    \* tokio RwLock around pending_responses (write side)
    holder,         \* EVENT_RECEIVER content: NoProc, DeadRx, or receiver of a spawn's channel
    fwdTasks,       \* forward_daemon_events tasks spawned and not yet started
    rxDropped,      \* channels whose receiver has been dropped
    nextProc,       \* number of children launched so far
    procStatus,     \* "none" | "running" | "exited" (on its own) | "stopped" (killed and reaped by stop)
    stdout,         \* per child: lines written and not yet read
    stdinLog,       \* per child: command lines received on its stdin
    readerPc,       \* per child: "none" | "read" | "locked" | "exited"
    readerEvt,      \* per child: the event the reader holds the table lock for
    monitorPc,      \* per child: "none" | "ready" | "done"
    pc,             \* per call: position in send_command_async
    cmdId,          \* per call: command.id
    chan,           \* per call: value sent on its oneshot channel
    outcome,        \* per call: value returned by send_command_async
    stopPc,         \* DaemonBridge::stop: "idle" | "grace" (stop_daemon) | "dropGrace" (Drop)
    sink,           \* events accepted by the event channels (the Event Sink), in order
    nextSerial,     \* number of stdout lines written so far
    resource_dir,   \* find_daemon_binary's argument: "None" or "Some"
    exe_dir,        \* whether current_exe() and its parent() are available
    fileKind,       \* the filesystem: candidate path -> "absent" | "file" | "dir"
    located         \* what find_daemon_binary returned, NotCalled before the call

bridgeVars == <<child, stdin, shutdown_tx, event_tx>>
tableVars == <<pending, pendingLock>>
mainVars == <<holder, fwdTasks, rxDropped>>
procVars == <<nextProc, procStatus, stdout, stdinLog, nextSerial>>
readerVars == <<readerPc, readerEvt>>
callVars == <<pc, cmdId, chan, outcome>>
findVars == <<resource_dir, exe_dir, fileKind, located>>
vars == <<child, stdin, shutdown_tx, event_tx, pending, bridgeLock, pendingLock,
          holder, fwdTasks, rxDropped, nextProc, procStatus, stdout, stdinLog,
          readerPc, readerEvt, monitorPc, pc, cmdId, chan, outcome,
          stopPc, sink, nextSerial, resource_dir, exe_dir, fileKind, located>>

\* ---- DaemonBridge::get_binary_candidates, DaemonBridge::find_daemon_binary ----
\* A path is <<directory, file name>>; "daemon" is binary_name and
\* "daemon-arch" is arch_binary on a recognised platform.
ResourcePaths ==
    << <<"res", "daemon">>, <<"res", "daemon-arch">>,
       <<"res/binaries", "daemon">>, <<"res/binaries", "daemon-arch">> >>
ExePaths == << <<"exe", "daemon">>, <<"exe", "daemon-arch">> >>
CwdPaths == << <<".", "daemon">>, <<".", "daemon-arch">> >>
DistPaths ==
    << <<"../../dist", "daemon-arch">>, <<"../dist", "daemon-arch">>, <<"dist", "daemon-arch">> >>
GetBinaryCandidates(res, exe) ==
    (IF res = "Some" THEN ResourcePaths ELSE <<>>)
    \o (IF exe THEN ExePaths ELSE <<>>)
    \o CwdPaths \o DistPaths

Range(seq) == {seq[k] : k \in 1..Len(seq)}
AllPaths == Range(ResourcePaths \o ExePaths \o CwdPaths \o DistPaths)
Kinds == {"absent", "file", "dir"}

\* Path::exists: true for whatever the path names, a directory included
PathExists(kind, path) == kind[path] # "absent"

NotCalled == <<"NotCalled">>
BinaryNotFound == <<"Err", "BinaryNotFound">>
FindDaemonBinary(res, exe, kind) ==
    LET candidates == GetBinaryCandidates(res, exe)
        hits == {k \in 1..Len(candidates) : PathExists(kind, candidates[k])}
    IN IF hits = {} THEN BinaryNotFound
       ELSE <<"Ok", candidates[CHOOSE k \in hits : \A j \in hits : k <= j]>>

\* ---- DaemonBridge::new, create_shared_bridge, main ----
InitBridge ==
    /\ child = NoProc
    /\ stdin = NoProc
    /\ shutdown_tx = NoProc
    /\ event_tx = NoProc
    /\ pending = [i \in CmdIds |-> NoCall]
    /\ bridgeLock = Free
    /\ pendingLock = Free
    /\ holder = NoProc
    /\ fwdTasks = 0
    /\ rxDropped = {}
    /\ nextProc = 0
    /\ procStatus = [p \in Procs |-> "none"]
    /\ stdout = [p \in Procs |-> <<>>]
    /\ stdinLog = [p \in Procs |-> <<>>]
    /\ readerPc = [p \in Procs |-> "none"]
    /\ readerEvt = [p \in Procs |-> NoEvt]
    /\ monitorPc = [p \in Procs |-> "none"]
    /\ pc = [c \in Calls |-> "idle"]
    /\ cmdId = [c \in Calls |-> 0]
    /\ chan = [c \in Calls |-> NoMsg]
    /\ outcome = [c \in Calls |-> NoMsg]
    /\ stopPc = "idle"
    /\ sink = <<>>
    /\ nextSerial = 0

\* the bridge on a machine where no candidate path exists
Init ==
    /\ InitBridge
    /\ resource_dir = "None"
    /\ exe_dir = FALSE
    /\ fileKind = [path \in AllPaths |-> "absent"]
    /\ located = NotCalled

\* ---- wire codec ----
\* A stdout line: "empty" (zero-length), "badutf8" (BufRead::lines yields Err),
\* "garbage" (not a JSON object with type, evt and data), or "evt" (an object
\* with type, evt, data and the given id member).  The id member of a line is
\* <<"absent">> (no such member), <<"null">> or <<"str", s>>; the string "" is
\* <<"str", 0>>.  serial and stream say which line it is: the n-th line
\* written, to the stdout of child p.
Line(p, n, shape, wid) == [serial |-> n, stream |-> p, shape |-> shape, id |-> wid]

\* serde_json::from_str::<DaemonEvent>: id is Option<String> with serde(default)
DecodeOk_IdRequired(line) == line.shape = "evt" /\ line.id # <<"absent">>
DecodeOk(line) == line.shape = "evt"
DecodeId(wid) == IF wid \in {<<"absent">>, <<"null">>} THEN <<"None">> ELSE <<"Some", wid[2]>>
Decode(line) == [serial |-> line.serial, stream |-> line.stream, id |-> DecodeId(line.id)]

\* `if let Some(id) = &event.id { if !id.is_empty() {`
HasReplyId(e) == e.id[1] = "Some" /\ e.id[2] # 0

\* ---- DaemonBridge::is_running ----
\* poll: outcome of Child::try_wait, "err" when the call itself fails
TryWait(poll) ==
    IF poll = "err" THEN "Err"
    ELSE IF procStatus[child] = "running" THEN "None" ELSE "Some"
IsRunning_NoPoll(poll) == child # NoProc
IsRunning(poll) == child # NoProc /\ TryWait(poll) = "None"
IsRunningClears_OnErr(poll) == child # NoProc /\ TryWait(poll) # "None"
IsRunningClears(poll) == child # NoProc /\ TryWait(poll) = "Some"
ChildAfterIsRunning(poll) == IF IsRunningClears(poll) THEN NoProc ELSE child
StdinAfterIsRunning(poll) == IF IsRunningClears(poll) THEN NoProc ELSE stdin

\* ---- DaemonCommand ----
\* DaemonCommand::new: msg_type is always "cmd"
DaemonCommand(name, id, params) == [msg_type |-> "cmd", cmd |-> name, id |-> id, params |-> params]
\* serde_json::to_string(&command): one line, msg_type under the key "type"
ToLine(command) ==
    [type |-> command.msg_type, cmd |-> command.cmd, id |-> command.id, params |-> command.params]

\* ---- DaemonBridge::send_command ----
\* The write reaches the child iff the read end of the pipe is still open.
SendCommandResult_IgnoreExit(h) == IF h = NoProc THEN "NotRunning" ELSE "Ok"
SendCommandResult(h) ==
    IF h = NoProc THEN "NotRunning"
    ELSE IF procStatus[h] = "running" THEN "Ok" ELSE "SendError"
\* the value send_command returns
SendCommandReturn(h, command) ==
    IF SendCommandResult(h) = "Ok" THEN <<"Ok", command.id>> ELSE <<"Err", SendCommandResult(h)>>
StdinAfterWrite(h, command) ==
    IF SendCommandResult(h) = "Ok"
    THEN [stdinLog EXCEPT ![h] = Append(@, ToLine(command))]
    ELSE stdinLog

\* The receiving half of a call's oneshot channel lives from the start of
\* send_command_async until the function returns or the timeout elapses.
RxOpen(c) == pc[c] \in {"bridge", "insert", "send", "wait"}

\* ---- send_command_async ----
\* `bridge.lock().await` and `pending_responses.write().await`
CallLock(c) ==
    /\ pc[c] = "idle"
    /\ bridgeLock = Free
    /\ pendingLock = Free
    /\ bridgeLock' = ByCall(c)
    /\ pendingLock' = ByCall(c)
    /\ cmdId' = [cmdId EXCEPT ![c] = NewId(c)]
    /\ pc' = [pc EXCEPT ![c] = "insert"]
    /\ UNCHANGED <<findVars, bridgeVars, pending, mainVars, procVars, readerVars, monitorPc,
                   chan, outcome, stopPc, sink>>

\* The same two acquisitions one at a time: `bridge.lock().await` ...
CallBridge(c) ==
    /\ pc[c] = "idle"
    /\ bridgeLock = Free
    /\ bridgeLock' = ByCall(c)
    /\ cmdId' = [cmdId EXCEPT ![c] = NewId(c)]
    /\ pc' = [pc EXCEPT ![c] = "bridge"]
    /\ UNCHANGED <<findVars, bridgeVars, tableVars, mainVars, procVars, readerVars, monitorPc,
                   chan, outcome, stopPc, sink>>

\* ... and, with the bridge guard held, `pending_responses.write().await`
CallTable(c) ==
    /\ pc[c] = "bridge"
    /\ pendingLock = Free
    /\ pendingLock' = ByCall(c)
    /\ pc' = [pc EXCEPT ![c] = "insert"]
    /\ UNCHANGED <<findVars, bridgeVars, pending, bridgeLock, mainVars, procVars, readerVars,
                   monitorPc, cmdId, chan, outcome, stopPc, sink>>

PendingInsert(id, c) == [pending EXCEPT ![id] = c]

\* `pending.insert(cmd_id.clone(), tx)` and the release of the table guard
CallInsert(c) ==
    /\ pc[c] = "insert"
    /\ pending' = PendingInsert(cmdId[c], c)
    /\ pendingLock' = Free
    /\ pc' = [pc EXCEPT ![c] = "send"]
    /\ UNCHANGED <<findVars, bridgeVars, bridgeLock, mainVars, procVars, readerVars,
                   monitorPc, cmdId, chan, outcome, stopPc, sink>>

SendFailure(r) == IF r = "NotRunning" THEN ErrNotRunning ELSE ErrSendError

\* the command a caller passes in (main.rs: dial, send_message, ...); its
\* params are opaque to the bridge
CallCommand(c) == DaemonCommand("dial", cmdId[c], <<"addr", c>>)

\* `bridge_guard.send_command(command)?` and the release of the bridge guard
CallSend(c) ==
    /\ pc[c] = "send"
    /\ stdinLog' = StdinAfterWrite(stdin, CallCommand(c))
    /\ IF SendCommandResult(stdin) = "Ok"
       THEN /\ pc' = [pc EXCEPT ![c] = "wait"]
            /\ UNCHANGED outcome
       ELSE /\ pc' = [pc EXCEPT ![c] = "done"]
            /\ outcome' = [outcome EXCEPT ![c] = SendFailure(SendCommandResult(stdin))]
    /\ bridgeLock' = Free
    /\ UNCHANGED <<findVars, bridgeVars, tableVars, mainVars, nextProc, procStatus, stdout,
                   nextSerial, readerVars, monitorPc, cmdId, chan, stopPc, sink>>

\* `Ok(Ok(result)) => result`
CallRecv(c) ==
    /\ pc[c] = "wait"
    /\ chan[c] # NoMsg
    /\ outcome' = [outcome EXCEPT ![c] = chan[c]]
    /\ pc' = [pc EXCEPT ![c] = "done"]
    /\ UNCHANGED <<findVars, bridgeVars, tableVars, bridgeLock, mainVars, procVars, readerVars,
                   monitorPc, cmdId, chan, stopPc, sink>>

\* `Err(_) =>`: the 30 s elapse with nothing in the channel; the timeout
\* future, and the receiver in it, is gone from here on
CallTimeout_Never(c) == FALSE /\ UNCHANGED vars
CallTimeout(c) ==
    /\ pc[c] = "wait"
    /\ chan[c] = NoMsg
    /\ pc' = [pc EXCEPT ![c] = "expire"]
    /\ UNCHANGED <<findVars, bridgeVars, tableVars, bridgeLock, mainVars, procVars, readerVars,
                   monitorPc, cmdId, chan, outcome, stopPc, sink>>

CallExpireLock(c) ==
    /\ pc[c] = "expire"
    /\ bridgeLock = Free
    /\ pendingLock = Free
    /\ bridgeLock' = ByCall(c)
    /\ pendingLock' = ByCall(c)
    /\ pc' = [pc EXCEPT ![c] = "expLocked"]
    /\ UNCHANGED <<findVars, bridgeVars, pending, mainVars, procVars, readerVars, monitorPc,
                   cmdId, chan, outcome, stopPc, sink>>

\* The timeout path one acquisition at a time: `bridge.lock().await` ...
CallExpireBridge_TableFirst(c) ==
    /\ pc[c] = "expire"
    /\ pendingLock = Free
    /\ pendingLock' = ByCall(c)
    /\ pc' = [pc EXCEPT ![c] = "expBridge"]
    /\ UNCHANGED <<findVars, bridgeVars, pending, bridgeLock, mainVars, procVars, readerVars,
                   monitorPc, cmdId, chan, outcome, stopPc, sink>>

CallExpireBridge(c) ==
    /\ pc[c] = "expire"
    /\ bridgeLock = Free
    /\ bridgeLock' = ByCall(c)
    /\ pc' = [pc EXCEPT ![c] = "expBridge"]
    /\ UNCHANGED <<findVars, bridgeVars, tableVars, mainVars, procVars, readerVars, monitorPc,
                   cmdId, chan, outcome, stopPc, sink>>

\* ... and `bridge_guard.pending_responses.write().await`
CallExpireTable(c) ==
    /\ pc[c] = "expBridge"
    /\ pendingLock = Free
    /\ pendingLock' = ByCall(c)
    /\ pc' = [pc EXCEPT ![c] = "expLocked"]
    /\ UNCHANGED <<findVars, bridgeVars, pending, bridgeLock, mainVars, procVars, readerVars,
                   monitorPc, cmdId, chan, outcome, stopPc, sink>>

PendingRemove(id) == [pending EXCEPT ![id] = NoCall]
ExpireEntry_Keep(c) == pending
ExpireEntry(c) == PendingRemove(cmdId[c])

\* `pending.remove(&cmd_id); Err(DaemonError::Timeout)`
CallExpireRemove(c) ==
    /\ pc[c] = "expLocked"
    /\ pending' = ExpireEntry(c)
    /\ pendingLock' = Free
    /\ bridgeLock' = Free
    /\ outcome' = [outcome EXCEPT ![c] = ErrTimeout]
    /\ pc' = [pc EXCEPT ![c] = "done"]
    /\ UNCHANGED <<findVars, bridgeVars, mainVars, procVars, readerVars, monitorPc,
                   cmdId, chan, stopPc, sink>>

\* ---- DaemonBridge::read_stdout ----
PendingLookup_AnyEntry(id) ==
    IF \E i \in CmdIds : pending[i] # NoCall
    THEN pending[CHOOSE i \in CmdIds : pending[i] # NoCall]
    ELSE NoCall
PendingLookup(id) == IF id \in CmdIds THEN pending[id] ELSE NoCall
PendingTake_Keep(id) == pending
PendingTake(id) == IF id \in CmdIds THEN PendingRemove(id) ELSE pending

\* oneshot::Sender::send: the value is stored only while the receiver exists
OneshotSend(s, msg) ==
    IF s # NoCall /\ RxOpen(s) THEN [chan EXCEPT ![s] = msg] ELSE chan

\* `event_tx.send(event)`: fails iff the receiver of the channel is gone
SinkAccepts(p) == p \notin rxDropped
SinkPush_Twice(p, e) == IF SinkAccepts(p) THEN Append(Append(sink, e), e) ELSE sink
SinkPush_Front(p, e) == IF SinkAccepts(p) THEN <<e>> \o sink ELSE sink
SinkPush(p, e) == IF SinkAccepts(p) THEN Append(sink, e) ELSE sink
AfterForward(p) == IF SinkAccepts(p) THEN "read" ELSE "exited"

\* One iteration of `for line in reader.lines()`.  When the event carries a
\* reply id and try_write succeeds, the iteration stops with the table lock
\* held (ReaderResolve continues it); in every other case it runs to its end.
ReaderLine(p) ==
    /\ readerPc[p] = "read"
    /\ stdout[p] # <<>>
    /\ LET line == Head(stdout[p])
           e == Decode(line)
       IN /\ stdout' = [stdout EXCEPT ![p] = Tail(@)]
          /\ IF line.shape = "badutf8"
             THEN /\ readerPc' = [readerPc EXCEPT ![p] = "exited"]
                  /\ UNCHANGED <<readerEvt, pendingLock, sink>>
             ELSE IF line.shape = "empty" \/ ~DecodeOk(line)
             THEN UNCHANGED <<readerPc, readerEvt, pendingLock, sink>>
             ELSE IF HasReplyId(e) /\ pendingLock = Free
             THEN /\ pendingLock' = ByReader(p)
                  /\ readerPc' = [readerPc EXCEPT ![p] = "locked"]
                  /\ readerEvt' = [readerEvt EXCEPT ![p] = e]
                  /\ UNCHANGED sink
             ELSE /\ sink' = SinkPush(p, e)
                  /\ readerPc' = [readerPc EXCEPT ![p] = AfterForward(p)]
                  /\ UNCHANGED <<readerEvt, pendingLock>>
    /\ UNCHANGED <<findVars, bridgeVars, pending, bridgeLock, mainVars, nextProc, procStatus,
                   stdinLog, nextSerial, monitorPc, callVars, stopPc>>

\* `pending_guard.remove(id)`, the release of the guard,
\* `sender.send(Ok(event.clone()))` and `event_tx.send(event)`
ReaderResolve(p) ==
    /\ readerPc[p] = "locked"
    /\ pending' = PendingTake(readerEvt[p].id[2])
    /\ pendingLock' = Free
    /\ chan' = OneshotSend(PendingLookup(readerEvt[p].id[2]), OkEvent(readerEvt[p]))
    /\ sink' = SinkPush(p, readerEvt[p])
    /\ readerPc' = [readerPc EXCEPT ![p] = AfterForward(p)]
    /\ readerEvt' = [readerEvt EXCEPT ![p] = NoEvt]
    /\ UNCHANGED <<findVars, bridgeVars, bridgeLock, mainVars, procVars, monitorPc,
                   pc, cmdId, outcome, stopPc>>

\* end of stream: the write end is closed and the pipe is drained
ReaderEof(p) ==
    /\ readerPc[p] = "read"
    /\ stdout[p] = <<>>
    /\ procStatus[p] \in {"exited", "stopped"}
    /\ readerPc' = [readerPc EXCEPT ![p] = "exited"]
    /\ UNCHANGED <<findVars, bridgeVars, tableVars, bridgeLock, mainVars, procVars, readerEvt,
                   monitorPc, callVars, stopPc, sink>>

\* ---- the shutdown monitor thread of DaemonBridge::spawn ----
\* `let _ = shutdown_rx;` does not wait for anything: the thread goes
\* straight to try_write and the drain.
Registered(c) == \E i \in CmdIds : pending[i] = c
MonitorDrain ==
    [c \in Calls |-> IF Registered(c) /\ RxOpen(c) THEN ErrNotRunning ELSE chan[c]]

MonitorRun(p) ==
    /\ monitorPc[p] = "ready"
    /\ monitorPc' = [monitorPc EXCEPT ![p] = "done"]
    /\ IF pendingLock = Free
       THEN /\ chan' = MonitorDrain
            /\ pending' = [i \in CmdIds |-> NoCall]
       ELSE UNCHANGED <<chan, pending>>
    /\ UNCHANGED <<findVars, bridgeVars, pendingLock, bridgeLock, mainVars, procVars, readerVars,
                   pc, cmdId, outcome, stopPc, sink>>

\* ---- the daemon (opaque) ----
\* A daemon can only echo ids it has read from its stdin; any other id
\* string it produces is UnknownId.
ReceivedIds(p) == {stdinLog[p][k].id : k \in {j \in 1..Len(stdinLog[p]) : stdinLog[p][j].cmd # "shutdown"}}
EmittableLines(p) ==
    {Line(p, nextSerial + 1, sh, <<"absent">>) : sh \in {"empty", "badutf8", "garbage"}}
    \cup {Line(p, nextSerial + 1, "evt", w) :
            w \in {<<"absent">>, <<"str", 0>>, <<"str", UnknownId>>}
                  \cup {<<"str", i>> : i \in ReceivedIds(p)}}

DaemonEmit(p, line) ==
    /\ procStatus[p] = "running"
    /\ nextSerial < MaxLines
    /\ line \in EmittableLines(p)
    /\ stdout' = [stdout EXCEPT ![p] = Append(@, line)]
    /\ nextSerial' = nextSerial + 1
    /\ UNCHANGED <<findVars, bridgeVars, tableVars, bridgeLock, mainVars, nextProc, procStatus,
                   stdinLog, readerVars, monitorPc, callVars, stopPc, sink>>

DaemonExit(p) ==
    /\ procStatus[p] = "running"
    /\ procStatus' = [procStatus EXCEPT ![p] = "exited"]
    /\ UNCHANGED <<findVars, bridgeVars, tableVars, bridgeLock, mainVars, nextProc, stdout,
                   stdinLog, nextSerial, readerVars, monitorPc, callVars, stopPc, sink>>

\* ---- start_daemon (main.rs) and DaemonBridge::spawn ----
ShutdownId == NumCalls + 2      \* the fresh uuid of a "shutdown" command
\* `DaemonCommand::new("shutdown", serde_json::json!({}))`
ShutdownCommand == DaemonCommand("shutdown", ShutdownId, <<>>)

\* The outcome of bridge.spawn for the `child` it finds and the OS's answer
SpawnResult_NoOwnedCheck(ch, oserr) == IF oserr THEN "SpawnError" ELSE "Ok"
SpawnResult(ch, oserr) ==
    IF ch # NoProc THEN "AlreadyRunning"
    ELSE IF oserr THEN "SpawnError" ELSE "Ok"

\* The response of start_daemon; poll: what try_wait does; found:
\* find_daemon_binary succeeds; oserr: Command::spawn fails
StartResponse(poll, found, oserr) ==
    IF IsRunning(poll) THEN "Daemon is already running"
    ELSE IF ~found THEN "BinaryNotFound"
    ELSE IF SpawnResult(ChildAfterIsRunning(poll), oserr) # "Ok"
    THEN SpawnResult(ChildAfterIsRunning(poll), oserr)
    ELSE "started"

\* `*receiver.lock().await = Some(rx)` drops the receiver stored before
DroppedByStore == IF holder \in Procs THEN {holder} ELSE {}

StartDaemon(poll, found, oserr) ==
    /\ bridgeLock = Free
    /\ LET r == StartResponse(poll, found, oserr)
           p == nextProc + 1
       IN /\ r = "started" => nextProc < MaxProcs
          /\ child' = IF r = "started" THEN p ELSE ChildAfterIsRunning(poll)
          /\ stdin' = IF r = "started" THEN p ELSE StdinAfterIsRunning(poll)
          /\ shutdown_tx' = IF r = "started" THEN p ELSE shutdown_tx
          /\ event_tx' = IF r = "started" THEN p ELSE event_tx
          /\ IF r \in {"Daemon is already running", "BinaryNotFound"}
             THEN UNCHANGED <<holder, rxDropped>>
             ELSE /\ rxDropped' = rxDropped \cup DroppedByStore
                  /\ holder' = IF r = "started" THEN p ELSE DeadRx
          /\ IF r = "started"
             THEN /\ nextProc' = p
                  /\ procStatus' = [procStatus EXCEPT ![p] = "running"]
                  /\ readerPc' = [readerPc EXCEPT ![p] = "read"]
                  /\ monitorPc' = [monitorPc EXCEPT ![p] = "ready"]
                  /\ fwdTasks' = fwdTasks + 1
             ELSE UNCHANGED <<nextProc, procStatus, readerPc, monitorPc, fwdTasks>>
    /\ UNCHANGED <<findVars, tableVars, bridgeLock, stdout, stdinLog, nextSerial, readerEvt,
                   callVars, stopPc, sink>>

\* ---- forward_daemon_events (main.rs): `receiver.lock().await.take()` ----
ForwarderStart ==
    /\ fwdTasks > 0
    /\ fwdTasks' = fwdTasks - 1
    /\ holder' = NoProc
    /\ UNCHANGED <<findVars, bridgeVars, tableVars, bridgeLock, rxDropped, procVars, readerVars,
                   monitorPc, callVars, stopPc, sink>>

\* ---- stop_daemon (main.rs) and DaemonBridge::stop ----
\* up to `std::thread::sleep`: is_running, then the "shutdown" command
StopBegin(poll) ==
    /\ bridgeLock = Free
    /\ IF IsRunning(poll)
       THEN /\ stdinLog' = StdinAfterWrite(stdin, ShutdownCommand)
            /\ bridgeLock' = ByStop
            /\ stopPc' = "grace"
            /\ UNCHANGED <<child, stdin>>
       ELSE /\ child' = ChildAfterIsRunning(poll)
            /\ stdin' = StdinAfterIsRunning(poll)
            /\ UNCHANGED <<stdinLog, bridgeLock, stopPc>>
    /\ UNCHANGED <<findVars, shutdown_tx, event_tx, tableVars, mainVars, nextProc, procStatus,
                   stdout, nextSerial, readerVars, monitorPc, callVars, sink>>

\* after the grace period: kill, wait, clear the handles
Reaped_NoKill(ch) == procStatus
Reaped(ch) == IF ch = NoProc THEN procStatus ELSE [procStatus EXCEPT ![ch] = "stopped"]

StopFinish_KeepSignal ==
    /\ stopPc = "grace"
    /\ procStatus' = Reaped(child)
    /\ child' = NoProc
    /\ stdin' = NoProc
    /\ bridgeLock' = Free
    /\ stopPc' = "idle"
    /\ UNCHANGED <<findVars, shutdown_tx, event_tx, tableVars, mainVars, nextProc, stdout, stdinLog,
                   nextSerial, readerVars, monitorPc, callVars, sink>>

StopFinish ==
    /\ stopPc = "grace"
    /\ procStatus' = Reaped(child)
    /\ child' = NoProc
    /\ stdin' = NoProc
    /\ shutdown_tx' = NoProc
    /\ bridgeLock' = Free
    /\ stopPc' = "idle"
    /\ UNCHANGED <<findVars, event_tx, tableVars, mainVars, nextProc, stdout, stdinLog,
                   nextSerial, readerVars, monitorPc, callVars, sink>>

\* ---- daemon_status (main.rs) ----
DaemonStatus(poll) ==
    /\ bridgeLock = Free
    /\ child' = ChildAfterIsRunning(poll)
    /\ stdin' = StdinAfterIsRunning(poll)
    /\ UNCHANGED <<findVars, shutdown_tx, event_tx, tableVars, bridgeLock, mainVars, procVars,
                   readerVars, monitorPc, callVars, stopPc, sink>>

Polls == {"ok", "err"}

\* ---- impl Drop for DaemonBridge: `let _ = self.stop();` ----
\* The bridge is dropped by whoever holds the last Arc to it: no
\* send_command_async (each owns a clone of the Arc from its start to its
\* return) and no lifecycle command is in progress.  The bridge and its mutex
\* are gone afterwards.
ByDrop == <<"drop">>
Dropped == <<"dropped">>
LastOwner == /\ bridgeLock = Free
             /\ \A c \in Calls : pc[c] \in {"idle", "done"}

\* DaemonBridge::stop up to `std::thread::sleep`
DropBegin ==
    /\ LastOwner
    /\ stdinLog' = StdinAfterWrite(stdin, ShutdownCommand)
    /\ bridgeLock' = ByDrop
    /\ stopPc' = "dropGrace"
    /\ UNCHANGED <<findVars, bridgeVars, tableVars, mainVars, nextProc, procStatus,
                   stdout, nextSerial, readerVars, monitorPc, callVars, sink>>

\* DaemonBridge::stop after the grace period, then the fields are dropped
DropFinish ==
    /\ stopPc = "dropGrace"
    /\ procStatus' = Reaped(child)
    /\ child' = NoProc
    /\ stdin' = NoProc
    /\ shutdown_tx' = NoProc
    /\ event_tx' = NoProc
    /\ bridgeLock' = Dropped
    /\ stopPc' = "idle"
    /\ UNCHANGED <<findVars, tableVars, mainVars, nextProc, stdout, stdinLog,
                   nextSerial, readerVars, monitorPc, callVars, sink>>

\* ---- specifications ----
\* Spec: the callers against one launch of the child (further start_daemon
\* calls are made and fail or are refused); the child writes events that
\* carry an id.
Launches == 1
ReplyLines(p) == {l \in EmittableLines(p) : l.shape = "evt" /\ HasReplyId(Decode(l))}

Next ==
    \/ \E c \in Calls : CallLock(c)
    \/ \E c \in Calls : CallInsert(c)
    \/ \E c \in Calls : CallSend(c)
    \/ \E c \in Calls : CallRecv(c)
    \/ \E c \in Calls : CallTimeout(c)
    \/ \E c \in Calls : CallExpireLock(c)
    \/ \E c \in Calls : CallExpireRemove(c)
    \/ \E p \in Procs : ReaderLine(p)
    \/ \E p \in Procs : ReaderResolve(p)
    \/ \E p \in Procs : ReaderEof(p)
    \/ \E p \in Procs : MonitorRun(p)
    \/ \E p \in Procs : \E line \in ReplyLines(p) : DaemonEmit(p, line)
    \/ \E p \in Procs : DaemonExit(p)
    \/ \E poll \in Polls, found \in BOOLEAN, oserr \in BOOLEAN :
          StartDaemon(poll, found, oserr) /\ nextProc' <= Launches
    \/ ForwarderStart
    \/ \E poll \in Polls : StopBegin(poll)
    \/ StopFinish
    \/ \E poll \in Polls : DaemonStatus(poll)

Spec == Init /\ [][Next]_vars

\* SpecWire: one caller against one launch of the child; the child writes
\* every kind of line.
WireCalls == 1

NextWire ==
    \/ \E c \in 1..WireCalls : CallLock(c)
    \/ \E c \in Calls : CallInsert(c)
    \/ \E c \in Calls : CallSend(c)
    \/ \E c \in Calls : CallRecv(c)
    \/ \E c \in Calls : CallTimeout(c)
    \/ \E c \in Calls : CallExpireLock(c)
    \/ \E c \in Calls : CallExpireRemove(c)
    \/ \E p \in Procs : ReaderLine(p)
    \/ \E p \in Procs : ReaderResolve(p)
    \/ \E p \in Procs : ReaderEof(p)
    \/ \E p \in Procs : MonitorRun(p)
    \/ \E p \in Procs : \E line \in EmittableLines(p) : DaemonEmit(p, line)
    \/ \E p \in Procs : DaemonExit(p)
    \/ \E poll \in Polls, found \in BOOLEAN, oserr \in BOOLEAN :
          StartDaemon(poll, found, oserr) /\ nextProc' <= Launches
    \/ ForwarderStart
    \/ \E poll \in Polls : StopBegin(poll)
    \/ StopFinish
    \/ \E poll \in Polls : DaemonStatus(poll)

SpecWire == Init /\ [][NextWire]_vars

\* SpecRestart: the child is launched, stopped and launched again; one
\* caller, fewer lines.
RestartCalls == 1
RestartLines == 1

NextRestart ==
    \/ \E c \in 1..RestartCalls : CallLock(c)
    \/ \E c \in Calls : CallInsert(c)
    \/ \E c \in Calls : CallSend(c)
    \/ \E c \in Calls : CallRecv(c)
    \/ \E c \in Calls : CallTimeout(c)
    \/ \E c \in Calls : CallExpireLock(c)
    \/ \E c \in Calls : CallExpireRemove(c)
    \/ \E p \in Procs : ReaderLine(p)
    \/ \E p \in Procs : ReaderResolve(p)
    \/ \E p \in Procs : ReaderEof(p)
    \/ \E p \in Procs : MonitorRun(p)
    \/ \E p \in Procs : \E line \in ReplyLines(p) :
          DaemonEmit(p, line) /\ nextSerial' <= RestartLines
    \/ \E p \in Procs : DaemonExit(p)
    \/ \E poll \in Polls, found \in BOOLEAN, oserr \in BOOLEAN :
          StartDaemon(poll, found, oserr)
    \/ ForwarderStart
    \/ \E poll \in Polls : StopBegin(poll)
    \/ StopFinish
    \/ \E poll \in Polls : DaemonStatus(poll)
    \/ DropBegin
    \/ DropFinish

SpecRestart == Init /\ [][NextRestart]_vars

\* SpecLive: the callers against one launch of the child, with the
\* scheduling the runtime gives.  Every thread and task that can take a step
\* takes one eventually: a caller goes on to insert, send and return, the
\* reader and stop release what they hold, the value in a oneshot channel
\* wakes its receiver, and the 30 s timer fires (WF).  The tokio Mutex and
\* RwLock hand the lock to waiters in FIFO order, so a caller that waits for
\* the locks on its timeout path gets them (SF).  Nothing is assumed about
\* the daemon, the lifecycle commands or new callers.
LiveLines == 1

NextLive ==
    \/ \E c \in Calls : CallLock(c)
    \/ \E c \in Calls : CallInsert(c)
    \/ \E c \in Calls : CallSend(c)
    \/ \E c \in Calls : CallRecv(c)
    \/ \E c \in Calls : CallTimeout(c)
    \/ \E c \in Calls : CallExpireLock(c)
    \/ \E c \in Calls : CallExpireRemove(c)
    \/ \E p \in Procs : ReaderLine(p)
    \/ \E p \in Procs : ReaderResolve(p)
    \/ \E p \in Procs : ReaderEof(p)
    \/ \E p \in Procs : MonitorRun(p)
    \/ \E p \in Procs : \E line \in ReplyLines(p) :
          DaemonEmit(p, line) /\ nextSerial' <= LiveLines
    \/ \E p \in Procs : DaemonExit(p)
    \/ \E poll \in Polls, found \in BOOLEAN, oserr \in BOOLEAN :
          StartDaemon(poll, found, oserr) /\ nextProc' <= Launches
    \/ ForwarderStart
    \/ \E poll \in Polls : StopBegin(poll)
    \/ StopFinish
    \/ \E poll \in Polls : DaemonStatus(poll)

Scheduling ==
    /\ \A c \in Calls : /\ WF_vars(CallInsert(c))
                         /\ WF_vars(CallSend(c))
                         /\ WF_vars(CallRecv(c))
                         /\ WF_vars(CallTimeout(c))
                         /\ SF_vars(CallExpireLock(c))
                         /\ WF_vars(CallExpireRemove(c))
    /\ \A p \in Procs : WF_vars(ReaderResolve(p))
    /\ WF_vars(StopFinish)

SpecLive == Init /\ [][NextLive]_vars /\ Scheduling

\* SpecLocks: the locking of send_command_async step by step: a caller
\* takes the bridge mutex and then, holding it, waits for the table lock,
\* on the request path and on the timeout path alike.
LockLines == 1

NextLocks ==
    \/ \E c \in Calls : CallBridge(c)
    \/ \E c \in Calls : CallTable(c)
    \/ \E c \in Calls : CallInsert(c)
    \/ \E c \in Calls : CallSend(c)
    \/ \E c \in Calls : CallRecv(c)
    \/ \E c \in Calls : CallTimeout(c)
    \/ \E c \in Calls : CallExpireBridge(c)
    \/ \E c \in Calls : CallExpireTable(c)
    \/ \E c \in Calls : CallExpireRemove(c)
    \/ \E p \in Procs : ReaderLine(p)
    \/ \E p \in Procs : ReaderResolve(p)
    \/ \E p \in Procs : ReaderEof(p)
    \/ \E p \in Procs : MonitorRun(p)
    \/ \E p \in Procs : \E line \in ReplyLines(p) :
          DaemonEmit(p, line) /\ nextSerial' <= LockLines
    \/ \E p \in Procs : DaemonExit(p)
    \/ \E poll \in Polls, found \in BOOLEAN, oserr \in BOOLEAN :
          StartDaemon(poll, found, oserr) /\ nextProc' <= Launches
    \/ ForwarderStart
    \/ \E poll \in Polls : StopBegin(poll)
    \/ StopFinish
    \/ \E poll \in Polls : DaemonStatus(poll)

SpecLocks == Init /\ [][NextLocks]_vars

\* SpecFind: find_daemon_binary on a fixture filesystem: every assignment of
\* absent / regular file / directory to the candidate paths, with and without
\* a resource directory and an executable directory.  Paths that are not
\* candidates are left absent.
InitFind ==
    /\ InitBridge
    /\ resource_dir \in {"None", "Some"}
    /\ exe_dir \in BOOLEAN
    /\ fileKind \in [AllPaths -> Kinds]
    /\ \A path \in AllPaths \ Range(GetBinaryCandidates(resource_dir, exe_dir)) :
          fileKind[path] = "absent"
    /\ located = NotCalled

FindCall ==
    /\ located = NotCalled
    /\ located' = FindDaemonBinary(resource_dir, exe_dir, fileKind)
    /\ UNCHANGED <<bridgeVars, tableVars, bridgeLock, mainVars, procVars, readerVars,
                   monitorPc, callVars, stopPc, sink, resource_dir, exe_dir, fileKind>>

NextFind == FindCall

SpecFind == InitFind /\ [][NextFind]_vars

\* SpecAll: every caller, every launch, every kind of line.
NextAll ==
    \/ \E c \in Calls : CallLock(c)
    \/ \E c \in Calls : CallInsert(c)
    \/ \E c \in Calls : CallSend(c)
    \/ \E c \in Calls : CallRecv(c)
    \/ \E c \in Calls : CallTimeout(c)
    \/ \E c \in Calls : CallExpireLock(c)
    \/ \E c \in Calls : CallExpireRemove(c)
    \/ \E p \in Procs : ReaderLine(p)
    \/ \E p \in Procs : ReaderResolve(p)
    \/ \E p \in Procs : ReaderEof(p)
    \/ \E p \in Procs : MonitorRun(p)
    \/ \E p \in Procs : \E line \in EmittableLines(p) : DaemonEmit(p, line)
    \/ \E p \in Procs : DaemonExit(p)
    \/ \E poll \in Polls, found \in BOOLEAN, oserr \in BOOLEAN :
          StartDaemon(poll, found, oserr)
    \/ ForwarderStart
    \/ \E poll \in Polls : StopBegin(poll)
    \/ StopFinish
    \/ \E poll \in Polls : DaemonStatus(poll)
    \/ DropBegin
    \/ DropFinish

SpecAll == Init /\ [][NextAll]_vars

\* ---- properties ----
\* The child a waiting call's command line was written to
SentTo(c) == CHOOSE p \in Procs : cmdId[c] \in ReceivedIds(p)

\* C1: every Ok(event) a caller of send_command_async gets back carries the
\* caller's own command id, whatever the other callers and the reader do.
C1_OwnReplyOnly ==
    \A c \in Calls : outcome[c].tag = "Ok" => outcome[c].id = <<"Some", cmdId[c]>>

\* a caller has its reply while another caller's request is still registered
C1_Witness ==
    \E c, d \in Calls : /\ c # d
                        /\ outcome[c].tag = "Ok"
                        /\ pc[d] = "wait"
                        /\ pending[cmdId[d]] = d

\* C2: when the reader decodes an event whose non-empty id is registered in
\* the pending table, it takes the table lock and removes the entry, and the
\* waiting caller finds exactly that event in its channel.
RegisteredIds == {i \in CmdIds : pending[i] # NoCall}
C2_RegisteredReplyDelivered ==
    [][\A p \in Procs :
        /\ (/\ ReaderLine(p)
            /\ Head(stdout[p]).shape = "evt"
            /\ Head(stdout[p]).id \in {<<"str", i>> : i \in RegisteredIds})
           => (/\ pendingLock' = ByReader(p)
               /\ readerEvt'[p].serial = Head(stdout[p]).serial)
        /\ (ReaderResolve(p) /\ readerEvt[p].id[2] \in RegisteredIds)
           => LET c == pending[readerEvt[p].id[2]]
              IN /\ pending'[cmdId[c]] = NoCall
                 /\ pc[c] = "wait" => chan'[c] = OkEvent(readerEvt[p])]_vars

\* C3: a request that is outstanding (registered, sent, unanswered) when stop
\* has killed its child is failed with NotRunning: it does not leave its wait
\* with an empty channel.
C3_StopFailsOutstanding ==
    [][\A c \in Calls :
        (/\ pc[c] = "wait"
         /\ chan[c] = NoMsg
         /\ procStatus[SentTo(c)] = "stopped"
         /\ readerPc[SentTo(c)] = "exited")
        => pc'[c] = "wait"]_vars

\* C4: a request that is outstanding when its child has exited on its own and
\* the output stream has closed does not end in Timeout, and a command sent
\* once the child is gone fails with NotRunning or SendError.
C4_ExitFailsCallers ==
    [][\A c \in Calls :
        /\ (/\ pc[c] = "wait"
            /\ chan[c] = NoMsg
            /\ procStatus[SentTo(c)] = "exited"
            /\ readerPc[SentTo(c)] = "exited")
           => pc'[c] # "expire"
        /\ (/\ CallSend(c)
            /\ (stdin = NoProc \/ procStatus[stdin] # "running"))
           => outcome'[c] \in {ErrNotRunning, ErrSendError}]_vars

\* The timeout of a call has elapsed
TimedOut(c) == pc[c] \in {"expire", "expLocked"} \/ outcome[c] = ErrTimeout

\* what event_tx.send leaves in the Event Sink
SinkAfter(p, e) == IF p \in rxDropped THEN sink ELSE Append(sink, e)

\* C5: the timeout elapses only with nothing delivered; the call then ends in
\* Timeout and nothing else, with its entry out of the table; an event with
\* its id that the reader handles afterwards changes no caller's channel and
\* goes to the Event Sink only.
C5_TimeoutThenLateReply ==
    /\ [](\A c \in Calls :
            /\ pc[c] \in {"expire", "expLocked"} => chan[c] = NoMsg
            /\ outcome[c] = ErrTimeout => pending[cmdId[c]] = NoCall)
    /\ [][\A c \in Calls :
            /\ TimedOut(c) => /\ chan'[c] = chan[c]
                              /\ outcome'[c] \in {outcome[c], ErrTimeout}
            /\ \A p \in Procs :
                 (/\ TimedOut(c)
                  /\ ReaderResolve(p)
                  /\ readerEvt[p].id = <<"Some", cmdId[c]>>)
                 => /\ chan' = chan
                    /\ outcome' = outcome
                    /\ sink' = SinkAfter(p, readerEvt[p])]_vars

\* a call has ended in Timeout and the reader is handling an event with its id
C5_Witness ==
    \E c \in Calls, p \in Procs :
        /\ outcome[c] = ErrTimeout
        /\ readerPc[p] = "locked"
        /\ readerEvt[p].id = <<"Some", cmdId[c]>>

\* C6: a call is resolved exactly once: it ends with one outcome that never
\* changes, at most one value is ever put in its channel, its entry once
\* removed is not removed again, and whoever comes second to the entry (the
\* reader, or the caller's own timeout path) changes nothing.
C6_ResolvedOnce ==
    /\ [](\A c \in Calls :
            /\ (pc[c] = "done") <=> (outcome[c] # NoMsg)
            /\ outcome[c].tag \in {"none", "Ok", "Timeout", "NotRunning", "SendError"})
    /\ [][\A c \in Calls :
            /\ outcome[c] # NoMsg => outcome'[c] = outcome[c]
            /\ chan[c] # NoMsg => chan'[c] = chan[c]
            /\ TimedOut(c) => chan'[c] = chan[c]
            /\ (pc[c] \in {"send", "wait", "expire", "expLocked", "done"}
                  /\ pending[cmdId[c]] = NoCall) => pending'[cmdId[c]] = NoCall
            /\ (CallExpireRemove(c) /\ pending[cmdId[c]] = NoCall)
                 => pending' = pending /\ chan' = chan
            /\ \A p \in Procs :
                 (/\ ReaderResolve(p)
                  /\ readerEvt[p].id = <<"Some", cmdId[c]>>
                  /\ pending[cmdId[c]] = NoCall)
                 => pending' = pending /\ chan' = chan]_vars

\* the timeout of a call has elapsed, the call holds the locks to remove its
\* entry, the entry has already been taken by the other side, and the reply
\* has gone to the Event Sink without reaching the channel
C6_Witness ==
    \E c \in Calls :
        /\ pc[c] = "expLocked"
        /\ pending[cmdId[c]] = NoCall
        /\ chan[c] = NoMsg
        /\ \E k \in 1..Len(sink) : sink[k].id = <<"Some", cmdId[c]>>

\* C7: an event with no id member, with the id "" or with an id no entry of
\* the table has resolves no caller, leaves the table as it is and goes to
\* the Event Sink; a line without an id member decodes, with id None.
Unmatched(wid) ==
    \/ wid \in {<<"absent">>, <<"str", 0>>}
    \/ wid[1] = "str" /\ wid[2] \notin RegisteredIds
ExpectedId(wid) == IF wid = <<"absent">> THEN <<"None">> ELSE <<"Some", wid[2]>>
ExpectedEvent(l) == [serial |-> l.serial, stream |-> l.stream, id |-> ExpectedId(l.id)]
C7_UnmatchedIsPushOnly ==
    [][\A p \in Procs :
        /\ (/\ ReaderLine(p)
            /\ Head(stdout[p]).shape = "evt"
            /\ Unmatched(Head(stdout[p]).id))
           => /\ pending' = pending
              /\ chan' = chan
              /\ outcome' = outcome
              /\ \/ /\ sink' = SinkAfter(p, ExpectedEvent(Head(stdout[p])))
                    /\ pendingLock' = pendingLock
                 \/ /\ Head(stdout[p]).id \notin {<<"absent">>, <<"str", 0>>}
                    /\ pendingLock' = ByReader(p)
                    /\ readerEvt'[p] = ExpectedEvent(Head(stdout[p]))
                    /\ sink' = sink
        /\ (ReaderResolve(p) /\ readerEvt[p].id[2] \notin RegisteredIds)
           => /\ pending' = pending
              /\ chan' = chan
              /\ outcome' = outcome
              /\ sink' = SinkAfter(p, readerEvt[p])]_vars

\* a reply has resolved its request, and a second event with the same id,
\* which then matches no entry, has followed it into the Event Sink
C7_Witness ==
    \E c \in Calls :
        /\ chan[c].tag = "Ok"
        /\ Len(sink) = 2
        /\ sink[1].serial = chan[c].serial
        /\ sink[2].id = <<"Some", cmdId[c]>>

\* C8 as claimed: every line that decodes into an event is appended to the
\* Event Sink, once.
C8_EveryEventForwarded ==
    [][\A p \in Procs :
        /\ (/\ ReaderLine(p)
            /\ Head(stdout[p]).shape = "evt"
            /\ readerPc'[p] # "locked")
           => sink' = Append(sink, ExpectedEvent(Head(stdout[p])))
        /\ ReaderResolve(p) => sink' = Append(sink, readerEvt[p])]_vars

\* C8 amended: every line that decodes into an event is appended to the Event
\* Sink once if the receiver of the event channel still exists; if it has
\* been dropped the event is not forwarded and the reader stops.  No event is
\* in the sink twice, and a reply in a caller's channel is in the sink too
\* unless the receiver was gone.
C8_ForwardedWhileSinkOpen ==
    /\ [](/\ \A j, k \in 1..Len(sink) : j # k => sink[j].serial # sink[k].serial
          /\ \A c \in Calls :
               chan[c].tag = "Ok" =>
                  \/ \E k \in 1..Len(sink) : sink[k].serial = chan[c].serial
                  \/ SentTo(c) \in rxDropped)
    /\ [][\A p \in Procs :
            /\ (/\ ReaderLine(p)
                /\ Head(stdout[p]).shape = "evt"
                /\ readerPc'[p] # "locked")
               => /\ sink' = SinkAfter(p, ExpectedEvent(Head(stdout[p])))
                  /\ p \in rxDropped => readerPc'[p] = "exited"
            /\ ReaderResolve(p)
               => /\ sink' = SinkAfter(p, readerEvt[p])
                  /\ p \in rxDropped => readerPc'[p] = "exited"]_vars

\* a reply that is in its caller's channel is in the Event Sink as well
C8_Witness ==
    \E c \in Calls : /\ chan[c].tag = "Ok"
                     /\ \E k \in 1..Len(sink) : sink[k].serial = chan[c].serial

\* C9: once send_command_async has returned, with whatever outcome, the
\* table holds no entry for its id.
C9_NoEntryAfterReturn ==
    \A c \in Calls : pc[c] = "done" => pending[cmdId[c]] = NoCall

\* what a start leaves alone when it is refused
StartLeaves == <<child, stdin, event_tx, shutdown_tx, nextProc, procStatus, readerPc, monitorPc>>

\* C10 as claimed: start_daemon with a child owned fails as already running,
\* launches nothing and leaves the handles alone.
C10_StartWhileOwnedRefused ==
    [][\A poll \in Polls, found \in BOOLEAN, oserr \in BOOLEAN :
        (StartDaemon(poll, found, oserr) /\ child # NoProc)
        => /\ StartResponse(poll, found, oserr) \in {"AlreadyRunning", "Daemon is already running"}
           /\ UNCHANGED StartLeaves]_vars

\* C10 amended: spawn with a child owned fails with AlreadyRunning; so does
\* start_daemon, by its own check or by spawn's, unless its poll finds that
\* the owned child has exited (it then clears the handles and starts over) or
\* the poll itself fails and the binary is missing (BinaryNotFound).  Unless
\* the child was found exited, nothing is launched and child, stdin,
\* event_tx and shutdown_tx are unchanged.
C10_StartWhileRunningRefused ==
    [][\A poll \in Polls, found \in BOOLEAN, oserr \in BOOLEAN :
        (/\ StartDaemon(poll, found, oserr)
         /\ child # NoProc
         /\ ~(poll = "ok" /\ procStatus[child] # "running"))
        => /\ UNCHANGED StartLeaves
           /\ \/ StartResponse(poll, found, oserr) \in {"AlreadyRunning", "Daemon is already running"}
              \/ /\ poll = "err"
                 /\ ~found
                 /\ StartResponse(poll, found, oserr) = "BinaryNotFound"]_vars

\* spawn has been refused while the owned child runs: the receiver stored
\* for the refused start is all that is left of it
C10_Witness ==
    /\ child # NoProc
    /\ procStatus[child] = "running"
    /\ holder = DeadRx

\* C11: at most one child launched by the bridge is alive at any time, and
\* the one that is alive is the child the bridge owns.
Alive == {p \in Procs : procStatus[p] = "running"}
C11_OneChildAlive ==
    /\ Cardinality(Alive) <= 1
    /\ \A p \in Alive : child = p

\* a second child runs after the first one has exited or been stopped
C11_Witness ==
    \E p, q \in Procs : /\ procStatus[p] \in {"exited", "stopped"}
                         /\ procStatus[q] = "running"
                         /\ child = q

\* C12: send_command with no stdin owned fails with NotRunning and writes
\* nothing; with the pipe broken it fails with SendError; otherwise it appends
\* exactly one line to the owned child's stdin, with type "cmd" and the
\* command's name, id and params, and returns the command's id.  The
\* shutdown command of stop is written the same way.
DialLine(c) == [type |-> "cmd", cmd |-> "dial", id |-> cmdId[c], params |-> <<"addr", c>>]
ShutdownLine == [type |-> "cmd", cmd |-> "shutdown", id |-> ShutdownId, params |-> <<>>]
C12_SendCommand ==
  /\ [](child = NoProc <=> stdin = NoProc)
  /\
    [][/\ \A c \in Calls :
            CallSend(c) =>
              /\ stdin = NoProc
                    => /\ outcome'[c] = ErrNotRunning
                       /\ stdinLog' = stdinLog
                       /\ SendCommandReturn(stdin, CallCommand(c)) = <<"Err", "NotRunning">>
              /\ (stdin # NoProc /\ procStatus[stdin] # "running")
                    => /\ outcome'[c] = ErrSendError
                       /\ SendCommandReturn(stdin, CallCommand(c)) = <<"Err", "SendError">>
              /\ (stdin # NoProc /\ procStatus[stdin] = "running")
                    => /\ outcome'[c] = NoMsg
                       /\ stdinLog' = [stdinLog EXCEPT ![stdin] = Append(@, DialLine(c))]
                       /\ SendCommandReturn(stdin, CallCommand(c)) = <<"Ok", cmdId[c]>>
       /\ \A poll \in Polls :
            (StopBegin(poll) /\ stopPc' = "grace")
              => stdinLog' = [stdinLog EXCEPT ![stdin] = Append(@, ShutdownLine)]]_vars

\* one command has been written to the child and waits for its reply; the
\* next one, sent after the child has exited, has failed with SendError
C12_Witness ==
    \E c, d \in Calls : /\ pc[c] = "wait"
                         /\ \E p \in Procs : /\ stdinLog[p] # <<>>
                                               /\ stdinLog[p][Len(stdinLog[p])] = DialLine(c)
                         /\ outcome[d] = ErrSendError

\* what DaemonBridge::stop is claimed to leave alone when no child is owned
StopLeaves == <<child, stdin, shutdown_tx, procStatus, stdinLog, pending, chan>>

\* C13 as claimed: stop leaves child, stdin and shutdown_tx cleared, and with
\* no child owned it changes nothing.
C13_StopClearsOrNoOp ==
    [][/\ (StopFinish \/ DropFinish)
            => (child' = NoProc /\ stdin' = NoProc /\ shutdown_tx' = NoProc)
       /\ ((DropBegin \/ DropFinish) /\ child = NoProc) => UNCHANGED StopLeaves]_vars

\* C13 amended: stop leaves child, stdin and shutdown_tx cleared and the
\* owned child reaped, whether or not the shutdown line could be written and
\* whether or not the child had exited before the kill.  With no child owned
\* it writes nothing and kills nothing, and the one thing it can change is
\* shutdown_tx, which is_running leaves set when it clears child and stdin;
\* with all three clear it changes nothing, so a stop after a stop is a
\* no-op.  stop_daemon calls stop only if is_running reports true; otherwise
\* it answers "Daemon is not running" and stop does not run.
C13_StopClears ==
    [][/\ (StopFinish \/ DropFinish)
            => /\ child' = NoProc /\ stdin' = NoProc /\ shutdown_tx' = NoProc
               /\ child # NoProc => procStatus'[child] = "stopped"
       /\ ((DropBegin \/ DropFinish) /\ child = NoProc)
            => UNCHANGED <<child, stdin, procStatus, stdinLog, pending, chan>>
       /\ ((DropBegin \/ DropFinish) /\ child = NoProc /\ shutdown_tx = NoProc)
            => UNCHANGED StopLeaves
       /\ \A poll \in Polls :
            (StopBegin(poll) /\ ~(child # NoProc /\ poll = "ok" /\ procStatus[child] = "running"))
              => /\ stopPc' = "idle"
                 /\ UNCHANGED <<shutdown_tx, procStatus, stdinLog, pending, chan>>]_vars

\* stop has run to its end on a child that had exited before the shutdown
\* line could be written: the line is not there and the handles are clear
C13_Witness ==
    /\ bridgeLock = Dropped
    /\ child = NoProc /\ stdin = NoProc /\ shutdown_tx = NoProc
    /\ \E p \in Procs : procStatus[p] = "stopped" /\ stdinLog[p] = <<>>

\* C14: dropping the bridge runs stop: the shutdown line is written to an
\* owned child that still reads, the grace period follows, then the owned
\* child is killed and reaped; once the bridge is gone no child launched by
\* it is alive.
C14_DropStopsChild ==
    /\ [](bridgeLock = Dropped => \A p \in Procs : procStatus[p] # "running")
    /\ [][/\ (DropBegin /\ stdin # NoProc /\ procStatus[stdin] = "running")
                => /\ stdinLog' = [stdinLog EXCEPT ![stdin] = Append(@, ShutdownLine)]
                   /\ stopPc' = "dropGrace"
                   /\ UNCHANGED <<child, stdin, procStatus>>
          /\ (DropFinish /\ child # NoProc)
                => /\ procStatus'[child] = "stopped"
                   /\ \A p \in Procs : procStatus'[p] # "running"]_vars

\* the bridge is being dropped while it owns a live child: the shutdown line
\* is written and the grace period runs
C14_Witness ==
    /\ stopPc = "dropGrace"
    /\ child # NoProc
    /\ procStatus[child] = "running"
    /\ stdinLog[child] # <<>>
    /\ stdinLog[child][Len(stdinLog[child])] = ShutdownLine

\* C18: stop_daemon's stop takes the bridge, writes the shutdown line to the
\* owned child while the child and the handles are left as they are, keeps
\* the bridge through the grace period, then kills and reaps the child and
\* only then clears the handles; the child has exited when stop returns, and
\* the shutdown line is the last line the child ever gets.
C18_StopOrder ==
    /\ [](/\ \A p \in Procs : \A k \in 1..Len(stdinLog[p]) :
                stdinLog[p][k].cmd = "shutdown" => k = Len(stdinLog[p])
          /\ stopPc = "grace" => /\ child # NoProc
                                 /\ stdin = child
                                 /\ \A c \in Calls : pc[c] \notin {"insert", "send", "expLocked"})
    /\ [][/\ \A poll \in Polls :
               (StopBegin(poll) /\ child # NoProc /\ poll = "ok" /\ procStatus[child] = "running")
                 => /\ stdinLog' = [stdinLog EXCEPT ![stdin] = Append(@, ShutdownLine)]
                    /\ stopPc' = "grace"
                    /\ UNCHANGED <<child, stdin, shutdown_tx, procStatus>>
          /\ (stopPc = "grace" /\ stopPc' = "grace") => stdinLog' = stdinLog
          /\ StopFinish
                 => /\ procStatus'[child] = "stopped"
                    /\ child' = NoProc /\ stdin' = NoProc /\ shutdown_tx' = NoProc]_vars

\* a caller's command was written to the child, the shutdown line after it,
\* and stop has returned with the child reaped while the caller still waits
C18_Witness ==
    \E c \in Calls, p \in Procs :
        /\ pc[c] = "wait"
        /\ stdinLog[p] = <<DialLine(c), ShutdownLine>>
        /\ procStatus[p] = "stopped"
        /\ child = NoProc
        /\ stopPc = "idle"

\* C16: at most one party is at send_command at a time: a caller that has
\* the bridge to write its line excludes every other caller and stop, and
\* every step that writes to a child's stdin appends one whole line to one
\* child's stream.
AtSendCommand == {c \in Calls : pc[c] \in {"insert", "send"}}
C16_WritesSerialized ==
    /\ [](/\ Cardinality(AtSendCommand) <= 1
          /\ AtSendCommand # {} => stopPc = "idle")
    /\ [][stdinLog' # stdinLog
            => /\ \/ \E c \in AtSendCommand : pc[c] = "send" /\ pc'[c] # "send"
                  \/ AtSendCommand = {} /\ stopPc = "idle" /\ stopPc' # "idle"
               /\ \E p \in Procs :
                     /\ Len(stdinLog'[p]) = Len(stdinLog[p]) + 1
                     /\ SubSeq(stdinLog'[p], 1, Len(stdinLog[p])) = stdinLog[p]
                     /\ \A q \in Procs \ {p} : stdinLog'[q] = stdinLog[q]]_vars

\* a caller is about to write its line while another one, whose line is
\* already on the stream, needs the bridge for its timeout path
C16_Witness ==
    \E c, d \in Calls :
        /\ pc[c] = "send"
        /\ pc[d] = "expire"
        /\ \E p \in Procs : stdinLog[p] = <<DialLine(d)>>

\* C19: a line that does not decode into an event is dropped: the reader
\* stays in its loop, and the table, the channels and the Event Sink are
\* left as they are; likewise an empty line.
C19_MalformedLineSkipped ==
    [][\A p \in Procs :
        (ReaderLine(p) /\ Head(stdout[p]).shape # "evt")
        => /\ readerPc'[p] = "read"
           /\ stdout'[p] = Tail(stdout[p])
           /\ UNCHANGED <<pending, chan, outcome, sink>>]_vars

\* C20: the events of one child's stdout are in the Event Sink in the order
\* of the stream, and a reply is put in its caller's channel only after
\* every earlier reply of that stream has been delivered and every earlier
\* event of that stream forwarded.
C20_StreamOrder ==
    /\ [](\A j, k \in 1..Len(sink) :
            (j < k /\ sink[j].stream = sink[k].stream) => sink[j].serial < sink[k].serial)
    /\ [][\A c \in Calls :
            (chan[c].tag # "Ok" /\ chan'[c].tag = "Ok")
            => /\ \A d \in Calls :
                    (chan[d].tag = "Ok" /\ chan[d].stream = chan'[c].stream)
                    => chan[d].serial < chan'[c].serial
               /\ \A k \in 1..Len(sink) :
                    sink[k].stream = chan'[c].stream => sink[k].serial < chan'[c].serial
               /\ sink' # sink => sink'[Len(sink')].serial = chan'[c].serial]_vars

\* two replies of one stream have reached their callers and the Event Sink
C20_Witness ==
    \E c, d \in Calls :
        /\ chan[c].tag = "Ok" /\ chan[d].tag = "Ok"
        /\ chan[c].serial < chan[d].serial
        /\ Len(sink) = 2
        /\ sink[1].serial = chan[c].serial
        /\ sink[2].serial = chan[d].serial

ClaimedOrder ==
    (IF resource_dir = "Some"
     THEN << <<"res", "daemon">>, <<"res", "daemon-arch">>,
             <<"res/binaries", "daemon">>, <<"res/binaries", "daemon-arch">> >>
     ELSE <<>>)
    \o (IF exe_dir THEN << <<"exe", "daemon">>, <<"exe", "daemon-arch">> >> ELSE <<>>)
    \o << <<".", "daemon">>, <<".", "daemon-arch">>,
          <<"../../dist", "daemon-arch">>, <<"../dist", "daemon-arch">>,
          <<"dist", "daemon-arch">> >>
RegularFiles == {k \in 1..Len(ClaimedOrder) : fileKind[ClaimedOrder[k]] = "file"}
C17_FirstRegularFile ==
    located # NotCalled =>
        IF RegularFiles = {} THEN located = BinaryNotFound
        ELSE \E k \in RegularFiles :
                /\ \A j \in RegularFiles : k <= j
                /\ located = <<"Ok", ClaimedOrder[k]>>

\* what the poll of is_running finds
Polled(poll) ==
    IF child = NoProc THEN "unowned"
    ELSE IF poll = "err" THEN "failed"
    ELSE IF procStatus[child] = "running" THEN "alive" ELSE "exited"

\* C21: is_running returns true exactly when a child is owned and the poll
\* shows it alive; when the poll shows the exit it clears child and stdin
\* and returns false; with no child owned or a failed poll it returns false
\* and changes nothing.  It never touches anything but child and stdin.
C21_IsRunning ==
    /\ [](\A poll \in Polls :
            /\ IsRunning(poll) <=> Polled(poll) = "alive"
            /\ Polled(poll) = "exited"
                 => /\ ChildAfterIsRunning(poll) = NoProc
                    /\ StdinAfterIsRunning(poll) = NoProc
            /\ Polled(poll) # "exited"
                 => /\ ChildAfterIsRunning(poll) = child
                    /\ StdinAfterIsRunning(poll) = stdin)
    /\ [][\A poll \in Polls :
            DaemonStatus(poll)
            => /\ child' = IF Polled(poll) = "exited" THEN NoProc ELSE child
               /\ stdin' = IF Polled(poll) = "exited" THEN NoProc ELSE stdin
               /\ UNCHANGED <<shutdown_tx, event_tx, procStatus, pending, stdinLog>>]_vars

\* is_running has seen the exit of the child: child and stdin are clear, and
\* the shutdown signal of that child, which only stop clears, is still there
C21_Witness ==
    /\ child = NoProc
    /\ stdin = NoProc
    /\ shutdown_tx # NoProc
    /\ procStatus[shutdown_tx] = "exited"

\* C22: a request that waits for its reply gets NotRunning only once stop or
\* drop has begun on the child it was sent to.
C22_NotRunningOnlyAfterStop ==
    [][\A c \in Calls :
        (pc[c] = "wait" /\ chan[c] = NoMsg /\ chan'[c] = ErrNotRunning)
        => \/ stopPc # "idle"
           \/ procStatus[SentTo(c)] = "stopped"]_vars

\* C23: in no state can is_running report not running while a child or
\* stdin stays owned, nor can start_daemon fail as already running while
\* stop_daemon, polling alike, refuses as not running.
C23_NotRunningMeansNotOwned ==
    \A poll \in Polls :
        /\ ~IsRunning(poll)
             => /\ ChildAfterIsRunning(poll) = NoProc
                /\ StdinAfterIsRunning(poll) = NoProc
        /\ \A found \in BOOLEAN, oserr \in BOOLEAN :
             StartResponse(poll, found, oserr) = "AlreadyRunning" => IsRunning(poll)

\* a caller inside send_command_async that waits for a lock another party
\* holds
BlockedCall(c) ==
    \/ pc[c] = "expire" /\ bridgeLock # Free
    \/ pc[c] \in {"bridge", "expBridge"} /\ pendingLock # Free

\* the next step of whoever holds the table lock needs no further lock
TableHolderRuns ==
    \/ pendingLock = Free
    \/ \E p \in Procs : pendingLock = ByReader(p) /\ ENABLED ReaderResolve(p)
    \/ \E c \in Calls : /\ pendingLock = ByCall(c)
                         /\ ENABLED (CallInsert(c) \/ CallExpireRemove(c))

\* whoever holds the bridge mutex can take its next step, or waits for the
\* table lock while the holder of that lock can
BridgeHolderRuns ==
    \/ bridgeLock = Free
    \/ bridgeLock = ByStop /\ ENABLED StopFinish
    \/ \E c \in Calls :
          /\ bridgeLock = ByCall(c)
          /\ \/ ENABLED (CallTable(c) \/ CallInsert(c) \/ CallSend(c)
                           \/ CallExpireTable(c) \/ CallExpireRemove(c))
             \/ /\ pc[c] \in {"bridge", "expBridge"}
                /\ \E p \in Procs : pendingLock = ByReader(p)
                /\ TableHolderRuns

\* C24: the bridge is deadlock-free.  A caller holds the table lock only
\* while it holds the bridge mutex; the reader holds the table lock only
\* after a successful try and the monitor never across a step; every lock
\* holder can take its next step or waits for a holder that can; so whenever
\* a caller is blocked on a lock some party is able to move.
C24_DeadlockFree ==
    /\ \A c \in Calls : pendingLock = ByCall(c) => bridgeLock = ByCall(c)
    /\ pendingLock \in {Free} \cup {ByCall(c) : c \in Calls} \cup {ByReader(p) : p \in Procs}
    /\ TableHolderRuns
    /\ BridgeHolderRuns
    /\ (\E c \in Calls : BlockedCall(c)) => ENABLED NextLocks

\* one caller waits on its timeout path for the bridge mutex, which the other
\* caller holds while it waits for the table lock, which the reader holds
C24_Witness ==
    \E c \in Calls, d \in Calls, p \in Procs :
        /\ c # d
        /\ pc[c] = "bridge"
        /\ bridgeLock = ByCall(c)
        /\ pendingLock = ByReader(p)
        /\ pc[d] = "expire"

====
